---- MODULE Spec2Model ----
(***************************************************************************)
(* Model of SyntheticAlarmControlPanel                                     *)
(* (custom_components/synthetic_alarm/alarm_control_panel.py).             *)
(*                                                                         *)
(* The panel runs on one asyncio event loop: a handler runs atomically     *)
(* from one await that really suspends to the next.  The awaits of the     *)
(* handlers are                                                            *)
(*   - services.async_call inside _call_script (the loop may run other     *)
(*     handlers before the caller resumes),                                *)
(*   - asyncio.sleep(delay_time) in the two arm handlers,                  *)
(*   - self._update_indicators() in the trigger handler: the class and its *)
(*     base define no such attribute, so the lookup raises AttributeError. *)
(* _monitor_sensors contains no await and runs as one atomic pass.         *)
(***************************************************************************)
EXTENDS Integers, Sequences, FiniteSets, TLC

\* ---------------------------------------------------------------- bounds
MaxTasks == 2      \* command handlers suspended at an await at one time
MaxQueued == 1     \* sensor state-change events fired and not yet handled

\* ------------------------------------------------------------- constants
DISARMED == "disarmed"
ARMING == "arming"
ARMED_HOME == "armed_home"
ARMED_AWAY == "armed_away"
TRIGGERED == "triggered"

AlarmControlPanelState == {DISARMED, ARMING, ARMED_HOME, ARMED_AWAY, TRIGGERED}

CONF_SCRIPT_ARM_HOME == "script_arm_home"
CONF_SCRIPT_DISARM_HOME == "script_disarm_home"
CONF_SCRIPT_ARM_AWAY == "script_arm_away"
CONF_SCRIPT_DISARM_AWAY == "script_disarm_away"

ScriptKeys ==
  {CONF_SCRIPT_ARM_HOME, CONF_SCRIPT_DISARM_HOME,
   CONF_SCRIPT_ARM_AWAY, CONF_SCRIPT_DISARM_AWAY}

None == "none"

\* The script bindings tried: the two arm scripts configured or not, the two
\* disarm scripts configured or not.
ScriptConfigs ==
  {f \in [ScriptKeys -> BOOLEAN] :
     /\ f[CONF_SCRIPT_ARM_HOME] = f[CONF_SCRIPT_ARM_AWAY]
     /\ f[CONF_SCRIPT_DISARM_HOME] = f[CONF_SCRIPT_DISARM_AWAY]}

DEFAULT_DELAY_TIME == 30
DEFAULT_TRIGGER_TIME == 600

\* Values config_flow.py lets the user enter.  The panel reads delay_time
\* only to compare it with 0.  It never reads trigger_time (the handler ends
\* before the line that does), the code or code_arm_required, so one value of
\* each is tried: the configuration with a code that arming requires.
DelayTimes == {0, DEFAULT_DELAY_TIME}
TriggerTimes == {DEFAULT_TRIGGER_TIME}
ConfiguredCodes == {"1234"}

\* The code argument a caller may pass to a command.
CommandCodes == {None, "1234", "0000"}

\* What hass.states.get(sensor) can give: no state object, or a state
\* whose .state string is "on", "off" or something else.
Readings == {None, "on", "off", "unavailable"}

VARIABLES
  hass,              \* self._hass is set (async_added_to_hass has run)
  state,             \* self._state
  pending_arm_mode,  \* self._pending_arm_mode, None when the attribute is absent
  delay_time,        \* self._delay_time
  trigger_time,      \* self._trigger_time
  scripts,           \* script key -> an entity id is configured
  armed_indicator,   \* an armed sensor is configured
  alarm_indicator,   \* an alarm sensor is configured
  code,              \* config "code" (never read by the panel)
  code_arm_required_conf, \* config "code_arm_required" (never read by the panel)
  armed_reading,     \* hass.states.get(self._armed_indicator)
  alarm_reading,     \* hass.states.get(self._alarm_indicator)
  queued,            \* state-change events fired, handler not yet run
  awaiting,          \* handlers suspended in await _call_script(...)
  sleeping,          \* arm handlers in asyncio.sleep, in wake-up order
  assigned,          \* values assigned to self._state by the last step
  written,           \* states passed to async_write_ha_state by the last step
  invoked,           \* _call_script calls of the last step, with their outcome
  last,              \* the last step: operation, inputs, state before it
  alone              \* the handler in flight started with no other handler in
                     \* flight and no sensor change or notification came since

config == <<delay_time, trigger_time, scripts, armed_indicator, alarm_indicator,
            code, code_arm_required_conf>>

vars == <<hass, state, pending_arm_mode, delay_time, trigger_time, scripts,
          armed_indicator, alarm_indicator, code, code_arm_required_conf,
          armed_reading, alarm_reading, queued, awaiting, sleeping,
          assigned, written, invoked, last, alone>>

InFlight == Len(awaiting) + Len(sleeping)

Step(op, arg, ended, raised) ==
  [op |-> op, from |-> state, pend |-> pending_arm_mode, arg |-> arg,
   ended |-> ended, raised |-> raised]

RemoveAt(s, i) == SubSeq(s, 1, i - 1) \o SubSeq(s, i + 1, Len(s))

\* ------------------------------------------------------------ _call_script
\* Outcomes of one _call_script(script) call:
\*   "unbound"  no entity id configured, return
\*   "nohass"   self._hass not set, return
\*   "missing"  hass.states.get(entity id) is None, return
\*   "called"   services.async_call was awaited and returned
\*   "raised"   the try block raised; the except clause logs and swallows it
\* Whether the script entity exists and whether the call raises is decided
\* by the rest of Home Assistant at the time of the call.
CallScriptOutcomes(script) ==
  IF script = None \/ ~scripts[script] THEN {"unbound"}
  ELSE IF ~hass THEN {"nohass"}
  ELSE {"missing", "called", "raised"}

\* The outcomes in which the handler reached "await services.async_call",
\* where the event loop may run other handlers before it resumes.
Suspends(outcome) == outcome \in {"called", "raised"}

Invocation(script, outcome) == [script |-> script, outcome |-> outcome]

\* -------------------------------------------------------- _monitor_sensors
\* A pass is a record: the panel state, the pending arm mode, the values
\* assigned to self._state so far and the states written with
\* async_write_ha_state so far.
Pass(st, pend, as, wr) ==
  [state |-> st, pending |-> pend, assigned |-> as, written |-> wr]

\* "self._state = st"
SetState(p, st) == [p EXCEPT !.state = st, !.assigned = Append(@, st)]

\* "self.async_write_ha_state()": observers get the state the panel has now.
WriteState(p) == [p EXCEPT !.written = Append(@, p.state)]

\* An assignment followed by its write.
Transition(p, st) == WriteState(SetState(p, st))

\* "if self._armed_indicator: ... if armed_state:" and the same for the alarm
\* sensor: the rule runs only for a configured sensor that has a state.
ArmedKnown == armed_indicator /\ armed_reading # None
AlarmKnown == alarm_indicator /\ alarm_reading # None

is_armed == armed_reading = "on"
is_triggered == alarm_reading = "on"

\* The resolution without the hasattr test.
ArmedResolutionNoCheck(pend) == pend

ArmedResolutionDefault(pend) == ARMED_AWAY

\* The resolution with ArmedHome as the default.
ArmedResolutionHome(pend) == IF pend # None THEN pend ELSE ARMED_HOME

\* The state the armed sensor resolves ARMING to.
ArmedResolution(pend) == IF pend # None THEN pend ELSE ARMED_AWAY

\* Variants of the armed-sensor rule: one that resolves on "on" in any state,
\* one that disarms on "off" from ArmedHome only.
ArmedRuleAnyState(p) ==
  IF ~ArmedKnown THEN p
  ELSE IF is_armed
    THEN [Transition(p, ArmedResolution(p.pending)) EXCEPT !.pending = None]
  ELSE IF ~is_armed /\ p.state \in {ARMED_HOME, ARMED_AWAY}
    THEN Transition(p, DISARMED)
  ELSE p

ArmedRuleHomeOnly(p) ==
  IF ~ArmedKnown THEN p
  ELSE IF is_armed /\ p.state = ARMING
    THEN [Transition(p, ArmedResolution(p.pending)) EXCEPT !.pending = None]
  ELSE IF ~is_armed /\ p.state \in {ARMED_HOME}
    THEN Transition(p, DISARMED)
  ELSE p

ArmedRule(p) ==
  IF ~ArmedKnown THEN p
  ELSE IF is_armed /\ p.state = ARMING
    THEN [Transition(p, ArmedResolution(p.pending)) EXCEPT !.pending = None]
  ELSE IF ~is_armed /\ p.state \in {ARMED_HOME, ARMED_AWAY}
    THEN Transition(p, DISARMED)
  ELSE p

\* The alarm rule with the write after the TRIGGERED assignment left out.
AlarmRuleNoWrite(p) ==
  IF ~AlarmKnown THEN p
  ELSE IF is_triggered /\ p.state # TRIGGERED
    THEN SetState(p, TRIGGERED)
  ELSE IF ~is_triggered /\ p.state = TRIGGERED
    THEN Transition(p, DISARMED)
  ELSE p

AlarmRule(p) ==
  IF ~AlarmKnown THEN p
  ELSE IF is_triggered /\ p.state # TRIGGERED
    THEN Transition(p, TRIGGERED)
  ELSE IF ~is_triggered /\ p.state = TRIGGERED
    THEN Transition(p, DISARMED)
  ELSE p

\* A pass in which the alarm rule is skipped when the armed rule has acted.
monitor_sensorsFirstMatch(p) ==
  IF ~hass THEN p
  ELSE IF ArmedRule(p) # p THEN ArmedRule(p)
  ELSE AlarmRule(p)

monitor_sensors(p) == IF ~hass THEN p ELSE AlarmRule(ArmedRule(p))

\* ---------------------------------------------------------- arm handlers
ArmTarget(cmd) == IF cmd = "arm_home" THEN ARMED_HOME ELSE ARMED_AWAY
\* The arm script binding with the two modes exchanged.
ArmScriptSwapped(cmd) ==
  IF cmd = "arm_home" THEN CONF_SCRIPT_ARM_AWAY ELSE CONF_SCRIPT_ARM_HOME

ArmScript(cmd) ==
  IF cmd = "arm_home" THEN CONF_SCRIPT_ARM_HOME ELSE CONF_SCRIPT_ARM_AWAY

\* The fallback without the "still ARMING" tests.
ArmFallbackUnconditional(p, target) == Transition(p, target)

\* The expiry with the sensor pass but without the fallback assignment.
ArmFallbackSensorsOnly(p, target) ==
  IF p.state # ARMING THEN p ELSE monitor_sensors(p)

ArmFallbackAway(p, target) ==
  IF p.state # ARMING THEN p
  ELSE LET q == monitor_sensors(p)
       IN IF q.state = ARMING
            THEN Transition(q, ARMED_AWAY)
            ELSE q

\* After the sleep: "if self._state == ARMING: await self._monitor_sensors();
\* if self._state == ARMING: self._state = <target>; async_write_ha_state()".
ArmFallback(p, target) ==
  IF p.state # ARMING THEN p
  ELSE LET q == monitor_sensors(p)
       IN IF q.state = ARMING
            THEN Transition(q, target)
            ELSE q

\* --------------------------------------------------------- disarm handler
DisarmScriptSwapped(current_state) ==
  IF current_state = ARMED_HOME THEN CONF_SCRIPT_DISARM_AWAY
  ELSE IF current_state = ARMED_AWAY THEN CONF_SCRIPT_DISARM_HOME
  ELSE None

\* The script async_alarm_disarm calls for the state it read on entry.
DisarmScript(current_state) ==
  IF current_state = ARMED_HOME THEN CONF_SCRIPT_DISARM_HOME
  ELSE IF current_state = ARMED_AWAY THEN CONF_SCRIPT_DISARM_AWAY
  ELSE None

DisarmOutcomeAssigns(p) == Transition(p, DISARMED)

\* The handler ends after the script call: "Script will control external
\* system, sensors will update our state".  It assigns nothing to _state.
DisarmOutcome(p) == p

\* -------------------------------------------------------------------- Init
Init ==
  /\ hass = FALSE
  /\ state = DISARMED
  /\ pending_arm_mode = None
  /\ delay_time \in DelayTimes
  /\ trigger_time \in TriggerTimes
  /\ scripts \in ScriptConfigs
  /\ armed_indicator \in BOOLEAN
  /\ alarm_indicator \in BOOLEAN
  /\ code \in ConfiguredCodes
  /\ code_arm_required_conf = TRUE
  /\ armed_reading \in (IF armed_indicator THEN Readings ELSE {None})
  /\ alarm_reading \in (IF alarm_indicator THEN Readings ELSE {None})
  /\ queued = 0
  /\ awaiting = <<>>
  /\ sleeping = <<>>
  /\ assigned = <<>>
  /\ written = <<>>
  /\ invoked = <<>>
  /\ last = Step("init", None, TRUE, FALSE)
  /\ alone = FALSE

Apply(p) ==
  /\ state' = p.state
  /\ pending_arm_mode' = p.pending
  /\ assigned' = p.assigned
  /\ written' = p.written

Here == Pass(state, pending_arm_mode, <<>>, <<>>)

\* async_added_to_hass: set self._hass, subscribe to the configured sensors,
\* then run the initial sensor check.
AddedToHass ==
  /\ ~hass
  /\ hass' = TRUE
  /\ LET p == AlarmRule(ArmedRule(Here)) IN Apply(p)
  /\ invoked' = <<>>
  /\ last' = Step("added", None, TRUE, FALSE)
  /\ alone' = FALSE
  /\ UNCHANGED <<config, armed_reading, alarm_reading, queued, awaiting, sleeping>>

\* The monitored entity gets a new state (or is removed): Home Assistant
\* fires a state-change event for the panel's listener.
SensorChange(sensor, v) ==
  /\ hass
  /\ queued < MaxQueued
  /\ \/ sensor = "armed" /\ armed_indicator
        /\ armed_reading' = v /\ UNCHANGED alarm_reading
     \/ sensor = "alarm" /\ alarm_indicator
        /\ alarm_reading' = v /\ UNCHANGED armed_reading
  /\ queued' = queued + 1
  /\ assigned' = <<>>
  /\ written' = <<>>
  /\ invoked' = <<>>
  /\ last' = Step("sensor_change", sensor, TRUE, FALSE)
  /\ alone' = FALSE
  /\ UNCHANGED <<hass, state, pending_arm_mode, config, awaiting, sleeping>>

\* _sensor_state_changed: the listener runs one _monitor_sensors pass over
\* the states the sensors have now.
SensorStateChanged ==
  /\ queued > 0
  /\ queued' = queued - 1
  /\ Apply(monitor_sensors(Here))
  /\ invoked' = <<>>
  /\ last' = Step("sensor_notify", None, TRUE, FALSE)
  /\ alone' = FALSE
  /\ UNCHANGED <<hass, config, armed_reading, alarm_reading, awaiting, sleeping>>

\* After the arm script call: with a delay enter ARMING and go to sleep,
\* without one run a sensor pass and return.
ArmEnter(p) ==
  IF delay_time > 0
    THEN Transition(p, ARMING)
    ELSE monitor_sensors(p)

\* async_alarm_arm_home / async_alarm_arm_away up to their first await that
\* suspends.  The code argument is not looked at.
ArmStart(cmd, cmdcode) ==
  /\ hass
  /\ InFlight < MaxTasks
  /\ \E o \in CallScriptOutcomes(ArmScript(cmd)) :
       /\ invoked' = <<Invocation(ArmScript(cmd), o)>>
       /\ IF Suspends(o)
            THEN /\ Apply(Pass(state, ArmTarget(cmd), <<>>, <<>>))
                 /\ awaiting' = Append(awaiting, [kind |-> "arm", arg |-> ArmTarget(cmd)])
                 /\ UNCHANGED sleeping
            ELSE /\ Apply(ArmEnter(Pass(state, ArmTarget(cmd), <<>>, <<>>)))
                 /\ sleeping' = IF delay_time > 0
                                  THEN Append(sleeping, ArmTarget(cmd))
                                  ELSE sleeping
                 /\ UNCHANGED awaiting
       /\ last' = Step("arm_start", ArmTarget(cmd),
                       ~Suspends(o) /\ delay_time = 0, FALSE)
  /\ alone' = (InFlight = 0)
  /\ UNCHANGED <<hass, config, armed_reading, alarm_reading, queued>>

\* An arm handler resumes after await _call_script(...).
ArmResume(i) ==
  /\ i \in 1..Len(awaiting)
  /\ awaiting[i].kind = "arm"
  /\ Apply(ArmEnter(Here))
  /\ awaiting' = RemoveAt(awaiting, i)
  /\ sleeping' = IF delay_time > 0
                   THEN Append(sleeping, awaiting[i].arg)
                   ELSE sleeping
  /\ invoked' = <<>>
  /\ last' = Step("arm_resume", awaiting[i].arg, delay_time = 0, FALSE)
  /\ UNCHANGED <<hass, config, armed_reading, alarm_reading, queued, alone>>

\* asyncio.sleep(self._delay_time) returns in the arm handler that went to
\* sleep first (all sleeps have the same length).
ArmExpire ==
  /\ sleeping # <<>>
  /\ Apply(ArmFallback(Here, Head(sleeping)))
  /\ sleeping' = Tail(sleeping)
  /\ invoked' = <<>>
  /\ last' = Step("arm_expire", Head(sleeping), TRUE, FALSE)
  /\ UNCHANGED <<hass, config, armed_reading, alarm_reading, queued, awaiting, alone>>

\* async_alarm_disarm up to its first await that suspends.
DisarmStart(cmdcode) ==
  /\ hass
  /\ InFlight < MaxTasks
  /\ LET current_state == state
         script == DisarmScript(current_state)
     IN \E o \in CallScriptOutcomes(script) :
          /\ invoked' = IF script = None THEN <<>> ELSE <<Invocation(script, o)>>
          /\ IF Suspends(o)
               THEN /\ awaiting' = Append(awaiting, [kind |-> "disarm", arg |-> current_state])
                    /\ UNCHANGED <<state, pending_arm_mode>>
                    /\ assigned' = <<>>
                    /\ written' = <<>>
               ELSE /\ Apply(DisarmOutcome(Here))
                    /\ UNCHANGED awaiting
          /\ last' = Step("disarm_start", current_state, ~Suspends(o), FALSE)
  /\ alone' = (InFlight = 0)
  /\ UNCHANGED <<hass, config, armed_reading, alarm_reading, queued, sleeping>>

\* The disarm handler resumes after await _call_script(...) and returns.
DisarmResume(i) ==
  /\ i \in 1..Len(awaiting)
  /\ awaiting[i].kind = "disarm"
  /\ Apply(DisarmOutcome(Here))
  /\ awaiting' = RemoveAt(awaiting, i)
  /\ invoked' = <<>>
  /\ last' = Step("disarm_resume", awaiting[i].arg, TRUE, FALSE)
  /\ UNCHANGED <<hass, config, armed_reading, alarm_reading, queued, sleeping, alone>>

\* async_alarm_trigger: set TRIGGERED, write the state, then evaluate
\* self._update_indicators.  No class in the repository defines that
\* attribute and AlarmControlPanelEntity has none, so the handler ends there
\* with AttributeError; the sleep and the reset behind it are never reached.
Trigger(cmdcode) ==
  /\ hass
  /\ Apply(Transition(Here, TRIGGERED))
  /\ invoked' = <<>>
  /\ last' = Step("trigger", None, TRUE, TRUE)
  /\ alone' = (InFlight = 0)
  /\ UNCHANGED <<hass, config, armed_reading, alarm_reading, queued, awaiting, sleeping>>

Next ==
  \/ AddedToHass
  \/ \E sensor \in {"armed", "alarm"}, v \in Readings : SensorChange(sensor, v)
  \/ SensorStateChanged
  \/ \E cmd \in {"arm_home", "arm_away"}, c \in CommandCodes : ArmStart(cmd, c)
  \/ \E i \in 1..MaxTasks : ArmResume(i)
  \/ ArmExpire
  \/ \E c \in CommandCodes : DisarmStart(c)
  \/ \E i \in 1..MaxTasks : DisarmResume(i)
  \/ \E c \in CommandCodes : Trigger(c)

Spec == Init /\ [][Next]_vars

TypeOK ==
  /\ state \in AlarmControlPanelState
  /\ pending_arm_mode \in {None, ARMED_HOME, ARMED_AWAY}
  /\ queued \in 0..MaxQueued
  /\ InFlight <= MaxTasks

\* ------------------------------------------------------------------ claims
DisarmOps == {"disarm_start", "disarm_resume"}
ArmOps == {"arm_start", "arm_resume"}
DisarmScripts == {CONF_SCRIPT_DISARM_HOME, CONF_SCRIPT_DISARM_AWAY}

\* The alarm sensor is configured, has a state, and that state is "on".
AlarmOn == AlarmKnown /\ is_triggered

\* C1 as stated: once the disarm handler has returned, PanelState is
\* Disarmed whatever it was before.
C1_DisarmSetsDisarmed ==
  (last.op \in DisarmOps /\ last.ended) => state = DISARMED

\* C1 amended: no step of the disarm handler assigns PanelState or the
\* pending arm mode or notifies observers, so after the handler PanelState
\* is what it was before the step, for every prior state.
C1_DisarmLeavesState ==
  last.op \in DisarmOps =>
    /\ state = last.from
    /\ pending_arm_mode = last.pend
    /\ written = <<>>

C1_Witness ==
  /\ last.op = "disarm_resume" /\ last.ended
  /\ last.arg = ARMED_HOME
  /\ last.from = ARMED_HOME
  /\ state = ARMED_HOME

\* C2: the disarm handler calls _call_script exactly once, in its first
\* step, with the disarm-home script when the state it read on entry is
\* ArmedHome and with the disarm-away script when it is ArmedAway; from any
\* other state it calls nothing; no other step calls a disarm script.
C2_DisarmInvokesMatchingAction ==
  /\ last.op = "disarm_start" =>
       /\ last.arg = last.from
       /\ last.from = ARMED_HOME =>
            /\ Len(invoked) = 1
            /\ invoked[1].script = CONF_SCRIPT_DISARM_HOME
       /\ last.from = ARMED_AWAY =>
            /\ Len(invoked) = 1
            /\ invoked[1].script = CONF_SCRIPT_DISARM_AWAY
       /\ last.from \in {DISARMED, ARMING, TRIGGERED} => invoked = <<>>
  /\ last.op = "disarm_resume" => invoked = <<>>
  /\ \A i \in 1..Len(invoked) :
       invoked[i].script \in DisarmScripts => last.op = "disarm_start"

C2_Witness ==
  /\ last.op = "disarm_start"
  /\ last.from = ARMED_AWAY
  /\ invoked = <<Invocation(CONF_SCRIPT_DISARM_AWAY, "called")>>

\* The last step ran a _monitor_sensors pass.
RanPass ==
  \/ last.op \in {"sensor_notify", "added"}
  \/ last.op = "arm_expire" /\ last.from = ARMING
  \/ last.op \in ArmOps /\ last.ended

\* The last step took an arm handler past its script call with a delay
\* configured.
EnteredArming ==
  /\ delay_time > 0
  /\ \/ last.op = "arm_resume"
     \/ last.op = "arm_start" /\ ~Suspends(invoked[1].outcome)

\* C3 as stated: with delay_time > 0, no sensor event and no other command,
\* an arm command with target T sets Arming once its script call is done,
\* stays Arming while its timer runs, and is T after the timer's expiry.
C3_ArmResolvesToTarget ==
  /\ EnteredArming => state = ARMING /\ written = <<ARMING>>
  /\ (alone /\ sleeping # <<>>) => state = ARMING
  /\ (alone /\ last.op = "arm_expire") => state = last.arg

\* C3 amended: the same, except that the pass run at the timer's expiry
\* moves the panel to Triggered instead of T when the alarm sensor reads
\* "on" at that moment.
C3_ArmResolvesToTargetOrTriggered ==
  /\ EnteredArming => state = ARMING /\ written = <<ARMING>>
  /\ (alone /\ sleeping # <<>>) => state = ARMING
  /\ (alone /\ last.op = "arm_expire") =>
       /\ last.from = ARMING
       /\ state = IF AlarmOn THEN TRIGGERED ELSE last.arg

C3_Witness ==
  /\ alone
  /\ delay_time > 0
  /\ last.op = "arm_expire"
  /\ last.from = ARMING
  /\ last.arg = ARMED_HOME
  /\ state = ARMED_HOME

\* C4: with delay_time = 0 an arm handler never writes Arming and, when it
\* returns, PanelState is its target T if no armed sensor is configured or
\* if the configured armed sensor reads "on".
C4_NoDelayArmResolves ==
  (delay_time = 0 /\ last.op \in ArmOps /\ last.ended) =>
    /\ \A i \in 1..Len(written) : written[i] # ARMING
    /\ ~armed_indicator => state = last.arg
    /\ (ArmedKnown /\ is_armed) => state = last.arg

\* C5: the trigger command sets Triggered from every prior state, and when
\* its handler has ended with trigger_time > 0 and nothing else has run, the
\* auto-reset has made the panel Disarmed.
C5_TriggerAutoResets ==
  last.op = "trigger" =>
    /\ written # <<>> /\ written[1] = TRIGGERED
    /\ (last.ended /\ trigger_time > 0) => state = DISARMED

C7_PendingIntentWins ==
  (RanPass /\ last.from = ARMING /\ last.pend # None
     /\ ArmedKnown /\ is_armed) =>
    /\ written # <<>>
    /\ written[1] = last.pend
    /\ pending_arm_mode = None
    /\ ~AlarmOn => state = last.pend

C7_Witness ==
  /\ last.op = "sensor_notify"
  /\ last.from = ARMING
  /\ last.pend = ARMED_HOME
  /\ ArmedKnown /\ is_armed
  /\ state = ARMED_HOME
  /\ pending_arm_mode = None

\* C8: in a sensor pass that starts in ArmedHome or ArmedAway with the armed
\* sensor reading "off", the armed-sensor rule writes Disarmed, no disarm
\* script is called, and the pass ends Disarmed unless the alarm sensor reads
\* "on".
C8_SensorOffDisarms ==
  (RanPass /\ last.from \in {ARMED_HOME, ARMED_AWAY}
     /\ ArmedKnown /\ armed_reading = "off") =>
    /\ written # <<>>
    /\ written[1] = DISARMED
    /\ \A i \in 1..Len(invoked) : invoked[i].script \notin DisarmScripts
    /\ ~AlarmOn => state = DISARMED

C8_Witness ==
  /\ last.op = "sensor_notify"
  /\ last.from = ARMED_AWAY
  /\ ArmedKnown /\ armed_reading = "off"
  /\ state = DISARMED
  /\ InFlight = 0

\* C9: an arm command whose code differs from the configured one, with a
\* code configured and code_arm_required set, changes neither PanelState
\* nor the pending arm mode and calls no script.
C9_InvalidCodeRejected ==
  [][\A cmd \in {"arm_home", "arm_away"}, c \in CommandCodes :
       (ArmStart(cmd, c) /\ code # "" /\ code_arm_required_conf /\ c # code) =>
         /\ state' = state
         /\ pending_arm_mode' = pending_arm_mode
         /\ invoked' = <<>>]_vars

\* C10: a sensor notification handled while the panel is ArmedHome or
\* ArmedAway, the armed sensor reads "on" and the alarm sensor does not,
\* leaves PanelState and the pending arm mode as they were and writes
\* nothing, each time it is handled.
C10_ArmedOnIsIdempotent ==
  (last.op = "sensor_notify" /\ last.from \in {ARMED_HOME, ARMED_AWAY}
     /\ ArmedKnown /\ is_armed /\ ~AlarmOn) =>
    /\ state = last.from
    /\ pending_arm_mode = last.pend
    /\ written = <<>>

C10_Witness ==
  /\ last.op = "sensor_notify"
  /\ last.from = ARMED_HOME
  /\ last.pend = ARMED_HOME
  /\ ArmedKnown /\ is_armed /\ ~AlarmOn
  /\ state = ARMED_HOME

\* C11: every step notifies observers of exactly the values it assigned to
\* PanelState, in the order of the assignments: the states written equal the
\* values assigned, none skipped, none merged, and the panel ends the step
\* in the last of them (or unchanged when the step assigned nothing).
C11_NotifiedInOrder ==
  /\ written = assigned
  /\ assigned = <<>> => state = last.from
  /\ assigned # <<>> => state = assigned[Len(assigned)]

C11_Witness ==
  /\ last.op = "sensor_notify"
  /\ last.from = ARMING
  /\ assigned = <<ARMED_HOME, TRIGGERED>>
  /\ written = <<ARMED_HOME, TRIGGERED>>
  /\ InFlight > 0

CommandOps ==
  {"arm_start", "arm_resume", "arm_expire",
   "disarm_start", "disarm_resume", "trigger"}

\* C12: no step of a command handler ends in an error that reaches the
\* caller, and an arm handler whose script is unbound, missing or whose call
\* raised still goes on to its state transition and its timer.
C12_NoFailureStopsCommand ==
  /\ last.op \in CommandOps => ~last.raised
  /\ (last.op = "arm_start" /\ delay_time > 0
        /\ ~Suspends(invoked[1].outcome)) =>
       state = ARMING /\ sleeping # <<>>
  /\ (last.op = "arm_start" /\ Suspends(invoked[1].outcome)) =>
       awaiting # <<>>

\* C13: PanelState is Disarmed at creation and, after any sequence of
\* commands, timer expiries and sensor events, is one of the five states;
\* so is every value assigned on the way.
C13_StateIsValid ==
  /\ state \in AlarmControlPanelState
  /\ last.op = "init" => state = DISARMED
  /\ \A i \in 1..Len(assigned) : assigned[i] \in AlarmControlPanelState

C13_Witness ==
  /\ last.op = "sensor_notify"
  /\ last.from = ARMING
  /\ last.pend = None
  /\ ArmedKnown /\ is_armed
  /\ assigned # <<>>
  /\ assigned[1] = ARMED_AWAY

\* An arm handler is suspended in its script call or in its sleep.
ArmInFlight ==
  \/ sleeping # <<>>
  \/ \E i \in 1..Len(awaiting) : awaiting[i].kind = "arm"

\* C14: when the timer of an arm command expires in Arming after a newer arm
\* command with the other target has recorded its pending arm mode and is
\* still in flight, and no sensor resolves the pass, the expiry makes no
\* fallback: the panel stays Arming for the newer command to resolve.
C14_EarlierTimerSuperseded ==
  (last.op = "arm_expire" /\ last.from = ARMING
     /\ last.pend \notin {None, last.arg}
     /\ ArmInFlight
     /\ ~(ArmedKnown /\ is_armed) /\ ~AlarmOn) =>
    /\ state = ARMING
    /\ assigned = <<>>

\* C15: when a disarm command is issued with the panel Arming (an arm timer
\* is then asleep) and the next thing to happen is the expiry of that timer,
\* the expiry assigns neither ArmedHome nor ArmedAway.
C15_DisarmCancelsArming ==
  [][(last.op = "disarm_start" /\ last.from = ARMING /\ sleeping # <<>>
        /\ last'.op = "arm_expire") =>
       \A i \in 1..Len(assigned') : assigned'[i] \notin {ARMED_HOME, ARMED_AWAY}]_vars

\* C16: an arm timer that expires when the panel is no longer Arming changes
\* nothing: no assignment, no notification, PanelState and the pending arm
\* mode stay as they were (a Disarmed or Triggered state in particular is
\* not replaced by the arm target).
C16_ExpiryAfterResolutionIsNoOp ==
  (last.op = "arm_expire" /\ last.from # ARMING) =>
    /\ state = last.from
    /\ pending_arm_mode = last.pend
    /\ assigned = <<>>
    /\ written = <<>>

C16_Witness ==
  /\ last.op = "arm_expire"
  /\ last.from = ARMED_HOME
  /\ last.arg = ARMED_HOME
  /\ last.pend = None
  /\ ArmedKnown /\ is_armed
  /\ state = ARMED_HOME
  /\ InFlight = 0

\* C17: whenever a sensor pass runs while the alarm sensor reads "on", the
\* panel is Triggered when the pass ends, also when the armed-sensor rule
\* changed the state earlier in the same pass.
C17_AlarmWinsInPass ==
  (RanPass /\ AlarmOn) => state = TRIGGERED

C17_Witness ==
  /\ last.op = "sensor_notify"
  /\ last.from = ARMED_AWAY
  /\ ArmedKnown /\ armed_reading = "off"
  /\ AlarmOn
  /\ assigned = <<DISARMED, TRIGGERED>>
  /\ state = TRIGGERED

\* What the armed-sensor rule of the last pass left for the alarm rule.
AfterArmedRule == ArmedRule(Pass(last.from, last.pend, <<>>, <<>>))

\* The transitions C18 lists for the alarm rule.
AlarmRuleAsClaimed(st) ==
  IF alarm_indicator /\ alarm_reading = "on" /\ st # TRIGGERED THEN TRIGGERED
  ELSE IF alarm_indicator /\ alarm_reading = "off" /\ st = TRIGGERED THEN DISARMED
  ELSE st

\* C18: in a pass run for a sensor notification the alarm rule moves the
\* panel to Triggered on "on" when it is not Triggered, to Disarmed on "off"
\* when it is Triggered, and in every other case (other readings, no state,
\* sensor unbound) changes nothing and writes nothing.
C18_AlarmRuleTransitions ==
  last.op = "sensor_notify" =>
    /\ state = AlarmRuleAsClaimed(AfterArmedRule.state)
    /\ AlarmRuleAsClaimed(AfterArmedRule.state) = AfterArmedRule.state =>
         written = AfterArmedRule.written

\* asyncio timers fire: a sleeping arm handler is eventually resumed.
FairSpec == Spec /\ WF_vars(ArmExpire)

\* C19: Arming is entered only by a step of an arm handler with
\* delay_time > 0; while the panel is Arming an arm timer is outstanding;
\* every expiry of an arm timer leaves the panel out of Arming; so, timers
\* being fair, the panel always eventually leaves Arming.
C19_ArmingIsTransitional ==
  /\ []((state = ARMING /\ last.from # ARMING) =>
          (last.op \in ArmOps /\ delay_time > 0))
  /\ [](state = ARMING => sleeping # <<>>)
  /\ [](last.op = "arm_expire" => state # ARMING)
  /\ (state = ARMING) ~> (state # ARMING)

C19_Witness ==
  /\ last.op = "arm_expire"
  /\ last.from = ARMING
  /\ sleeping # <<>>
  /\ state \in {ARMED_HOME, ARMED_AWAY}

\* C20: a pending arm mode is recorded only while an arm handler is in
\* flight: when the panel is in Disarmed, ArmedHome, ArmedAway or Triggered
\* and no arm handler is suspended, the pending arm mode is unset.
C20_PendingOnlyWhileInFlight ==
  (state \in {DISARMED, ARMED_HOME, ARMED_AWAY, TRIGGERED} /\ ~ArmInFlight) =>
    pending_arm_mode = None

\* C21: in a sensor pass (for a sensor notification or at the expiry of an
\* arm timer) that starts in Arming with no pending arm mode recorded and the
\* armed sensor reading "on", the armed-sensor rule assigns and writes
\* ArmedAway first, and the pass ends in ArmedAway unless the alarm sensor
\* reads "on".
C21_NoIntentDefaultsToAway ==
  (last.op \in {"sensor_notify", "arm_expire"} /\ last.from = ARMING
     /\ last.pend = None /\ ArmedKnown /\ is_armed) =>
    /\ assigned # <<>>
    /\ assigned[1] = ARMED_AWAY
    /\ written # <<>>
    /\ written[1] = ARMED_AWAY
    /\ ~AlarmOn => state = ARMED_AWAY

C21_Witness ==
  /\ last.op = "arm_expire"
  /\ last.from = ARMING
  /\ last.pend = None
  /\ last.arg = ARMED_HOME
  /\ ArmedKnown /\ is_armed
  /\ state = ARMED_AWAY

\* The arm action that belongs to an arm target.
ArmActionOf(target) ==
  IF target = ARMED_HOME THEN CONF_SCRIPT_ARM_HOME ELSE CONF_SCRIPT_ARM_AWAY

\* C22: an arm command records its target as the pending arm mode and makes
\* one call of its own arm action (never the other mode's) in its first
\* step; while that call is outstanding the command has assigned and written
\* nothing; Arming is assigned and written only by a step in which the call
\* has returned; and no later step of the command invokes anything.
C22_InvokeThenTransition ==
  /\ last.op = "arm_start" =>
       /\ Len(invoked) = 1
       /\ invoked[1].script = ArmActionOf(last.arg)
       /\ Suspends(invoked[1].outcome) =>
            /\ pending_arm_mode = last.arg
            /\ state = last.from
            /\ assigned = <<>>
            /\ written = <<>>
       /\ (~Suspends(invoked[1].outcome) /\ delay_time > 0) =>
            /\ pending_arm_mode = last.arg
            /\ assigned = <<ARMING>>
            /\ written = <<ARMING>>
  /\ last.op = "arm_resume" =>
       /\ invoked = <<>>
       /\ delay_time > 0 => assigned = <<ARMING>> /\ written = <<ARMING>>
  /\ last.op = "arm_expire" => invoked = <<>>
  /\ (\E i \in 1..Len(assigned) : assigned[i] = ARMING) =>
       \/ last.op = "arm_resume"
       \/ last.op = "arm_start" /\ ~Suspends(invoked[1].outcome)

C22_Witness ==
  /\ last.op = "arm_resume"
  /\ last.arg = ARMED_AWAY
  /\ last.from = DISARMED
  /\ last.pend = ARMED_AWAY
  /\ state = ARMING
  /\ written = <<ARMING>>
  /\ invoked = <<>>

\* The last step ran the armed-sensor rule in Arming with the armed sensor
\* reading "on" and no pending arm mode: the default-to-ArmedAway branch.
TookDefaultBranch ==
  /\ last.op \in {"sensor_notify", "arm_expire"}
  /\ last.from = ARMING
  /\ last.pend = None
  /\ ArmedKnown /\ is_armed

\* C23: whenever the panel is Arming a pending arm mode is recorded, and no
\* sensor pass takes the default-to-ArmedAway branch of the armed-sensor
\* rule.  (The pending arm mode, when recorded, is the target of the arm
\* command issued last, every arm command overwriting it in its first
\* step; the claim can fail only by the mode being absent.)
C23_ArmingHasPendingIntent ==
  /\ state = ARMING => pending_arm_mode # None
  /\ ~TookDefaultBranch

====
